---- MODULE Spec2Model ----
(***************************************************************************)
(* Movie search: the relay (src/src/server/index.ts), the search UI        *)
(* (src/src/App.tsx) and the upstream movie-metadata API they talk to.     *)
(*                                                                         *)
(* JavaScript values are tagged records, so that undefined, null, strings, *)
(* numbers, arrays and objects stay distinct and a property read, a        *)
(* truthiness test or a JSON round trip does what JavaScript does.         *)
(***************************************************************************)
EXTENDS Integers, Sequences, FiniteSets, TLC

VARIABLES
    searchQuery,    \* App.tsx:23   useState('')
    genres,         \* App.tsx:24   useState<Genre[]>([])
    selectedGenre,  \* App.tsx:25   useState('')
    response,       \* App.tsx:26   useState<ApiResponse | null>(null)
    loading,        \* App.tsx:27   useState(false)
    currentPage,    \* App.tsx:28   useState(1)
    totalPages,     \* App.tsx:29   useState(1)
    mounted,        \* whether the component has mounted (its effect has run)
    genreFetch,     \* the fetchGenres call of the mount effect
    submits,        \* the handleSubmit calls, in submission order
    relay,          \* the relay's handler runs, in arrival order
    cards           \* the genre strings of the cards last rendered

vars == <<searchQuery, genres, selectedGenre, response, loading, currentPage,
          totalPages, mounted, genreFetch, submits, relay, cards>>

uiState == <<searchQuery, genres, selectedGenre, response, loading, currentPage,
             totalPages>>

-----------------------------------------------------------------------------
(* Bounds of the model *)

MaxSubmits == 2
MaxClientRequests == 1
MaxGenreIds == 3
MaxGenres == 2

-----------------------------------------------------------------------------
(* JavaScript values *)

Undefined == [t |-> "undefined"]
Null == [t |-> "null"]
Bool(b) == [t |-> "boolean", v |-> b]
Str(s) == [t |-> "string", v |-> s]
Num(n) == [t |-> "number", v |-> n]
Arr(s) == [t |-> "array", v |-> s]
Obj(f) == [t |-> "object", v |-> f]

\* if (x) ...
Truthy(x) ==
    CASE x.t = "undefined" -> FALSE
      [] x.t = "null" -> FALSE
      [] x.t = "boolean" -> x.v
      [] x.t = "string" -> x.v # ""
      [] x.t = "number" -> x.v # 0
      [] OTHER -> TRUE

\* x.k throws a TypeError exactly when x is undefined or null
ReadThrows(x) == x.t \in {"undefined", "null"}

\* x.k, for an x on which the read does not throw
Get(x, k) ==
    IF x.t = "object" /\ k \in DOMAIN x.v THEN x.v[k] ELSE Undefined

\* JSON.stringify followed by JSON.parse: undefined has no JSON text, and a
\* property whose value is undefined is left out of the text of an object.
JsonRoundTrip(x) ==
    IF x.t = "object"
    THEN Obj([k \in {j \in DOMAIN x.v : x.v[j] # Undefined} |-> x.v[k]])
    ELSE x

-----------------------------------------------------------------------------
(* The relay: src/src/server/index.ts *)

TMDB_API_KEY == "2af03cea783dab21c0f5594423ebccad"
TMDB_BASE_URL == "https://api.themoviedb.org/3"

\* const page = req.query.page || '1'
pageOf(query) == IF Truthy(query.page) THEN query.page ELSE Str("1")

withGenresDropped(query, p) == p

\* if (genreId) params.with_genres = genreId
withGenres(query, p) ==
    IF Truthy(query.genreId) THEN p @@ ("with_genres" :> query.genreId) ELSE p

\* if (title) params.query = title
withQuery(query, p) ==
    IF Truthy(query.title) THEN p @@ ("query" :> query.title) ELSE p

\* const params = {api_key, include_adult: false, language: 'en-US', page}
\* and the two conditional assignments that follow it
moviesParams(query) ==
    withQuery(query, withGenres(query,
        [api_key |-> Str(TMDB_API_KEY),
         include_adult |-> Bool(FALSE),
         language |-> Str("en-US"),
         page |-> pageOf(query)]))

\* const endpoint = title ? `${TMDB_BASE_URL}/search/movie`
\*                        : `${TMDB_BASE_URL}/discover/movie`
moviesEndpoint(query) ==
    IF Truthy(query.title)
    THEN TMDB_BASE_URL \o "/search/movie"
    ELSE TMDB_BASE_URL \o "/discover/movie"

\* axios.get(endpoint, { params }) of the movies handler
moviesCall(query) ==
    [endpoint |-> moviesEndpoint(query), params |-> moviesParams(query)]

\* axios.get(`${TMDB_BASE_URL}/genre/movie/list`, { params: { api_key } })
genresCall ==
    [endpoint |-> TMDB_BASE_URL \o "/genre/movie/list",
     params |-> [api_key |-> Str(TMDB_API_KEY)]]

\* What axios.get settles with: fulfilled with the body of a 2xx answer, or
\* rejected with an error whose response is undefined (no answer at all) or
\* carries the body of the non-2xx answer.
Fulfilled(data) == [ok |-> TRUE, data |-> data]
Rejected(errorResponse) == [ok |-> FALSE, data |-> errorResponse]

\* res.json(body): one answer, the status set so far, the body as the caller
\* parses it; JSON.stringify(undefined) is undefined and the answer is empty.
Answer(status, body) ==
    [status |-> status,
     empty |-> body = Undefined,
     body |-> JsonRoundTrip(body)]

\* what a run of a handler leaves behind: the answers sent, and whether an
\* exception left the handler
Ran(sent, fault) == [sent |-> sent, fault |-> fault]

moviesCatchLeaksDetail(r) ==
    Ran(<<Answer(500, Obj([error |-> r.data]))>>, FALSE)

\* catch (error) { console.error(...); res.status(500).json({ error: ... }) }
moviesCatch(r) ==
    Ran(<<Answer(500, Obj([error |-> Str("Failed to fetch movies")]))>>, FALSE)

\* the try block after the await: res.json({ results: response.data.results,
\* total_pages: response.data.total_pages }); a rejected axios.get and a
\* TypeError of response.data.results both reach the catch block
moviesTry(r) ==
    IF r.ok /\ ~ReadThrows(r.data)
    THEN Ran(<<Answer(200, Obj([results |-> Get(r.data, "results"),
                                total_pages |-> Get(r.data, "total_pages")]))>>,
             FALSE)
    ELSE moviesCatch(r)

genresCatch(r) ==
    Ran(<<Answer(500, Obj([error |-> Str("Failed to fetch genres")]))>>, FALSE)

\* try { ... res.json(response.data.genres) } catch ...
genresTry(r) ==
    IF r.ok /\ ~ReadThrows(r.data)
    THEN Ran(<<Answer(200, Get(r.data, "genres"))>>, FALSE)
    ELSE genresCatch(r)

-----------------------------------------------------------------------------
(* The upstream API, as far as the relay can tell its answers apart *)

\* the genre list of the upstream API
UpstreamGenres ==
    Arr(<<Obj([id |-> Num(28), name |-> Str("Action")])>>)

\* the results the upstream API has for a call: they depend on what was asked
UpstreamResults(call) ==
    Arr(<<Obj([id |-> Num(1),
               title |-> IF "query" \in DOMAIN call.params
                         THEN call.params.query ELSE Str("Discovered"),
               genre_ids |-> IF "with_genres" \in DOMAIN call.params
                             THEN Arr(<<Num(28)>>) ELSE Arr(<<Num(28), Num(999)>>)])>>)

UpstreamPage(call) ==
    Obj([page |-> call.params.page,
         results |-> UpstreamResults(call),
         total_pages |-> Num(3),
         total_results |-> Num(50)])

UpstreamErrorDetail ==
    Obj([status_code |-> Num(7), status_message |-> Str("Invalid API key")])

\* every way a call to the upstream API can settle
MoviesOutcomes(call) ==
    { Rejected(Undefined),                    \* network error
      Rejected(UpstreamErrorDetail),          \* non-success status
      Fulfilled(UpstreamPage(call)),          \* well-formed payload
      Fulfilled(Obj([page |-> Num(1)])),      \* results and total_pages missing
      Fulfilled(Obj([results |-> UpstreamResults(call)])),   \* total_pages missing
      Fulfilled(Obj([total_pages |-> Num(3)])),              \* results missing
      Fulfilled(Str("<html>")),               \* not an object
      Fulfilled(Null) }                       \* not an object

GenresOutcomes ==
    { Rejected(Undefined),
      Rejected(UpstreamErrorDetail),
      Fulfilled(Obj([genres |-> UpstreamGenres])),
      Fulfilled(Obj([page |-> Num(1)])),
      Fulfilled(Null) }

-----------------------------------------------------------------------------
(* Requests to the relay *)

\* req.query of a GET /api/movies: each parameter a string, or absent
QueryValues(strings) == {Undefined} \cup {Str(s) : s \in strings}

ClientQueries ==
    [title : QueryValues({"", "Alien"}),
     genreId : QueryValues({"", "28"}),
     page : QueryValues({"", "1", "2"})]

NoQuery == [title |-> Undefined, genreId |-> Undefined, page |-> Undefined]

\* a handler run that has called axios.get and awaits it
Awaiting(route, query) ==
    [route |-> route, query |-> query, pc |-> "await",
     call |-> IF route = "movies" THEN moviesCall(query) ELSE genresCall,
     settled |-> Rejected(Undefined), sent |-> <<>>, fault |-> FALSE]

\* a client other than the UI sends GET /api/movies?<query>: the handler runs
\* to its await
ClientMovies(query) ==
    /\ Len(relay) < MaxClientRequests
    /\ relay' = Append(relay, Awaiting("movies", query))
    /\ UNCHANGED <<uiState, mounted, genreFetch, submits, cards>>

\* a client other than the UI sends GET /api/genres
ClientGenres ==
    /\ Len(relay) < MaxClientRequests
    /\ relay' = Append(relay, Awaiting("genres", NoQuery))
    /\ UNCHANGED <<uiState, mounted, genreFetch, submits, cards>>

\* axios.get of run i of the movies handler settles and the handler finishes
MoviesSettle(i, r) ==
    /\ relay[i].route = "movies" /\ relay[i].pc = "await"
    /\ LET ran == moviesTry(r)
       IN relay' = [relay EXCEPT ![i].pc = "done", ![i].settled = r,
                                 ![i].sent = ran.sent, ![i].fault = ran.fault]
    /\ UNCHANGED <<uiState, mounted, genreFetch, submits, cards>>

\* axios.get of run i of the genres handler settles and the handler finishes
GenresSettle(i, r) ==
    /\ relay[i].route = "genres" /\ relay[i].pc = "await"
    /\ LET ran == genresTry(r)
       IN relay' = [relay EXCEPT ![i].pc = "done", ![i].settled = r,
                                 ![i].sent = ran.sent, ![i].fault = ran.fault]
    /\ UNCHANGED <<uiState, mounted, genreFetch, submits, cards>>

\* the runs of a route's handler that await the upstream API
AwaitingRuns(route) ==
    {i \in DOMAIN relay : relay[i].route = route /\ relay[i].pc = "await"}

RelaySteps ==
    \/ \E i \in AwaitingRuns("movies") :
          \E r \in MoviesOutcomes(relay[i].call) : MoviesSettle(i, r)
    \/ \E i \in AwaitingRuns("genres") :
          \E r \in GenresOutcomes : GenresSettle(i, r)

\* GET /api/movies?<query> as its caller sees it: the answers of the handler
\* run in which axios.get settles with r
relayMovies(query, r) == moviesTry(r).sent

\* GET /api/genres as its caller sees it
relayGenres(r) == genresTry(r).sent

-----------------------------------------------------------------------------
(* The search UI: src/src/App.tsx *)

\* what a fetch has before it resolves
NoAnswer == [status |-> 0, empty |-> TRUE, body |-> Undefined]

\* genres.map(...) of the <select> (line 101) throws unless genres is an
\* array; React then takes the component off the page, form included
RenderThrows == genres.t # "array"

\* the form is on the page and takes input
FormShown == mounted /\ ~RenderThrows

submitPageFromTotalPages ==
    IF totalPages.t = "number" THEN ToString(totalPages.v) ELSE totalPages.t

\* currentPage.toString()
submitPage == ToString(currentPage)

\* new URLSearchParams() with genreId, title and page appended, as the relay
\* reads it back from req.query
submitQuery ==
    [genreId |-> IF selectedGenre # "" THEN Str(selectedGenre) ELSE Undefined,
     title |-> IF searchQuery # "" THEN Str(searchQuery) ELSE Undefined,
     page |-> Str(submitPage)]

\* the mount effect: fetchGenres() runs to its await fetch(.../api/genres)
Mount ==
    /\ ~mounted
    /\ mounted' = TRUE
    /\ genreFetch' = [pc |-> "fetch", requests |-> genreFetch.requests + 1,
                      res |-> NoAnswer]
    /\ UNCHANGED <<uiState, submits, relay, cards>>

\* fetch(.../api/genres) rejects: catch logs, genres is not set
GenresFetchReject ==
    /\ genreFetch.pc = "fetch"
    /\ genreFetch' = [genreFetch EXCEPT !.pc = "done"]
    /\ UNCHANGED <<uiState, mounted, submits, relay, cards>>

\* fetch(.../api/genres) resolves with the relay's answer, whatever its status
GenresFetchResolve(r) ==
    /\ genreFetch.pc = "fetch"
    /\ relayGenres(r) # <<>>
    /\ genreFetch' = [genreFetch EXCEPT !.pc = "json", !.res = relayGenres(r)[1]]
    /\ UNCHANGED <<uiState, mounted, submits, relay, cards>>

\* await res.json() settles: setGenres(data), or the catch block when the
\* body is not JSON; res goes out of scope
GenresJsonSettle ==
    /\ genreFetch.pc = "json"
    /\ genreFetch' = [genreFetch EXCEPT !.pc = "done", !.res = NoAnswer]
    /\ genres' = IF genreFetch.res.empty THEN genres ELSE genreFetch.res.body
    /\ UNCHANGED <<searchQuery, selectedGenre, response, loading, currentPage,
                   totalPages, mounted, submits, relay, cards>>

\* onChange of the title input: setSearchQuery(e.target.value)
SetSearchQuery(v) ==
    /\ FormShown
    /\ searchQuery # v
    /\ searchQuery' = v
    /\ UNCHANGED <<genres, selectedGenre, response, loading, currentPage,
                   totalPages, mounted, genreFetch, submits, relay, cards>>

\* the values of the <option>s: '' and each genre's id
GenreOptions ==
    IF RenderThrows THEN {}
    ELSE {""} \cup {ToString(genres.v[i].v.id.v) : i \in DOMAIN genres.v}

\* onChange of the genre select: setSelectedGenre(e.target.value)
SetSelectedGenre(v) ==
    /\ FormShown
    /\ selectedGenre # v
    /\ selectedGenre' = v
    /\ UNCHANGED <<searchQuery, genres, response, loading, currentPage,
                   totalPages, mounted, genreFetch, submits, relay, cards>>

\* handleSubmit up to its await fetch(.../api/movies?...): setLoading(true),
\* the parameters built from the form's state, the request sent
handleSubmit ==
    /\ FormShown
    /\ Len(submits) < MaxSubmits
    /\ loading' = TRUE
    /\ submits' = Append(submits, [pc |-> "fetch", query |-> submitQuery,
                                   res |-> NoAnswer])
    /\ UNCHANGED <<searchQuery, genres, selectedGenre, response, currentPage,
                   totalPages, mounted, genreFetch, relay, cards>>

submitNeverDisabled == FALSE

\* <button type="submit" disabled={loading}>
submitDisabled == loading

\* a click on the submit button
ClickSubmit == ~submitDisabled /\ handleSubmit

\* setResponse({ data: null, error: 'Failed to fetch data' })
ErrorResponse == Obj([data |-> Null, error |-> Str("Failed to fetch data")])

\* fetch of call k rejects: the catch block, then finally
FetchReject(k) ==
    /\ submits[k].pc = "fetch"
    /\ submits' = [submits EXCEPT ![k].pc = "done"]
    /\ response' = ErrorResponse
    /\ loading' = FALSE
    /\ UNCHANGED <<searchQuery, genres, selectedGenre, currentPage, totalPages,
                   mounted, genreFetch, relay, cards>>

\* fetch of call k resolves with the relay's answer, whatever its status
FetchResolve(k, r) ==
    /\ submits[k].pc = "fetch"
    /\ relayMovies(submits[k].query, r) # <<>>
    /\ submits' = [submits EXCEPT ![k].pc = "json",
                                  ![k].res = relayMovies(submits[k].query, r)[1]]
    /\ UNCHANGED <<uiState, mounted, genreFetch, relay, cards>>

\* await res.json() rejects, or data.results throws
JsonThrows(res, broken) == broken \/ res.empty \/ ReadThrows(res.body)

JsonSettleLatestOnly(k, broken) ==
    /\ submits[k].pc = "json"
    /\ submits' = [submits EXCEPT ![k].pc = "done", ![k].res = NoAnswer]
    /\ IF k < Len(submits)
       THEN UNCHANGED <<response, totalPages>>
       ELSE IF JsonThrows(submits[k].res, broken)
       THEN response' = ErrorResponse /\ UNCHANGED totalPages
       ELSE /\ response' = Obj([data |-> Get(submits[k].res.body, "results")])
            /\ totalPages' = Get(submits[k].res.body, "total_pages")
    /\ loading' = FALSE
    /\ UNCHANGED <<searchQuery, genres, selectedGenre, currentPage, mounted,
                   genreFetch, relay, cards>>

\* await res.json() of call k settles and the handler finishes:
\* setResponse({ data: data.results }) and setTotalPages(data.total_pages), or
\* the catch block; then finally setLoading(false); res goes out of scope
JsonSettle(k, broken) ==
    /\ submits[k].pc = "json"
    /\ submits' = [submits EXCEPT ![k].pc = "done", ![k].res = NoAnswer]
    /\ IF JsonThrows(submits[k].res, broken)
       THEN response' = ErrorResponse /\ UNCHANGED totalPages
       ELSE /\ response' = Obj([data |-> Get(submits[k].res.body, "results")])
            /\ totalPages' = Get(submits[k].res.body, "total_pages")
    /\ loading' = FALSE
    /\ UNCHANGED <<searchQuery, genres, selectedGenre, currentPage, mounted,
                   genreFetch, relay, cards>>

\* what the block under the form shows (lines 117-151)
Banner(resp) ==
    IF ~Truthy(resp) THEN [kind |-> "nothing", text |-> ""]
    ELSE IF Truthy(Get(resp, "error"))
         THEN [kind |-> "error", text |-> Get(resp, "error").v]
    ELSE IF Get(resp, "data").t = "array" /\ Len(Get(resp, "data").v) > 0
         THEN [kind |-> "cards", text |-> ""]
    ELSE [kind |-> "error", text |-> "No movies found"]

-----------------------------------------------------------------------------
(* Rendering a card's genres: App.tsx lines 123-129 *)

\* genres.find((g) => g.id === id): the first match, or undefined
find(gs, id) ==
    LET hits == {j \in DOMAIN gs : Get(gs[j], "id") = id}
    IN IF hits = {} THEN Undefined
       ELSE gs[CHOOSE j \in hits : \A h \in hits : j <= h]

keepAll(xs) == xs

\* .filter(Boolean)
filterBoolean(xs) == SelectSeq(xs, Truthy)

\* what join writes for an element: nothing for null and undefined
joinText(x) == IF x.t \in {"null", "undefined"} THEN "" ELSE x.v

\* .join(sep)
RECURSIVE join(_, _)
join(xs, sep) ==
    IF xs = <<>> THEN ""
    ELSE IF Len(xs) = 1 THEN joinText(xs[1])
    ELSE joinText(xs[1]) \o sep \o join(Tail(xs), sep)

\* movie.genre_ids?.map((id) => { const genre = genres.find(...);
\*   return genre ? genre.name : null }).filter(Boolean).join(', ') || 'N/A'
movieGenres(movie, gs) ==
    LET ids == Get(movie, "genre_ids")
    IN IF ReadThrows(ids) THEN "N/A"
       ELSE LET names == [i \in DOMAIN ids.v |->
                            LET genre == find(gs, ids.v[i])
                            IN IF Truthy(genre) THEN Get(genre, "name") ELSE Null]
                joined == join(filterBoolean(names), ", ")
            IN IF joined # "" THEN joined ELSE "N/A"

\* the cards are rendered: response.data.map((movie) => ...), reached when
\* response has no error and data is a non-empty array
RenderCards ==
    /\ FormShown
    /\ Banner(response).kind = "cards"
    /\ cards' = [i \in DOMAIN response.v.data.v |->
                    movieGenres(response.v.data.v[i], genres.v)]
    /\ cards' # cards
    /\ UNCHANGED <<uiState, mounted, genreFetch, submits, relay>>

SeqsUpTo(S, n) == UNION {[1..m -> S] : m \in 0..n}

\* cached genre lists: ids may repeat, a name may be empty
GenreLists ==
    SeqsUpTo({Obj([id |-> Num(i), name |-> Str(n)]) :
                 i \in {12, 28}, n \in {"", "Action", "Adventure"}}, MaxGenres)

\* results with genre_ids absent, empty, matching or not
Movies ==
    {Obj([id |-> Num(1), title |-> Str("Alien")])} \cup
    {Obj([id |-> Num(1), title |-> Str("Alien"), genre_ids |-> Arr(ids)]) :
        ids \in SeqsUpTo({Num(12), Num(28), Num(999)}, MaxGenreIds)}

\* the UI showing a result, the genre list cached
InitRender ==
    /\ searchQuery = ""
    /\ genres \in {Arr(gs) : gs \in GenreLists}
    /\ selectedGenre = ""
    /\ response \in {Obj([data |-> Arr(<<m>>)]) : m \in Movies}
    /\ loading = FALSE
    /\ currentPage = 1
    /\ totalPages = Num(3)
    /\ mounted = TRUE
    /\ genreFetch = [pc |-> "done", requests |-> 1, res |-> NoAnswer]
    /\ submits = <<>>
    /\ relay = <<>>
    /\ cards = <<>>

NextRender == RenderCards

SpecRender == InitRender /\ [][NextRender]_vars

-----------------------------------------------------------------------------

Init ==
    /\ searchQuery = ""
    /\ genres = Arr(<<>>)
    /\ selectedGenre = ""
    /\ response = Null
    /\ loading = FALSE
    /\ currentPage = 1
    /\ totalPages = Num(1)
    /\ mounted = FALSE
    /\ genreFetch = [pc |-> "none", requests |-> 0, res |-> NoAnswer]
    /\ submits = <<>>
    /\ relay = <<>>
    /\ cards = <<>>

\* the relay alone, asked by arbitrary clients
NextRelay ==
    \/ \E q \in ClientQueries : ClientMovies(q)
    \/ ClientGenres
    \/ RelaySteps

SpecRelay == Init /\ [][NextRelay]_vars

SearchTexts == {"", "Alien"}

\* what the UI does apart from submitting
UISteps ==
    \/ Mount
    \/ GenresFetchReject
    \/ \E r \in GenresOutcomes : GenresFetchResolve(r)
    \/ GenresJsonSettle
    \/ \E v \in SearchTexts : SetSearchQuery(v)
    \/ \E v \in GenreOptions : SetSelectedGenre(v)
    \/ \E k \in DOMAIN submits : FetchReject(k)
    \/ \E k \in DOMAIN submits :
          \E r \in MoviesOutcomes(moviesCall(submits[k].query)) : FetchResolve(k, r)
    \/ \E k \in DOMAIN submits : \E broken \in BOOLEAN : JsonSettle(k, broken)

\* the form submitted by its submit button
Next == ClickSubmit \/ UISteps

Spec == Init /\ [][Next]_vars

\* the form submitted by whatever calls handleSubmit, loading or not
NextOverlap == handleSubmit \/ UISteps

SpecOverlap == Init /\ [][NextOverlap]_vars

-----------------------------------------------------------------------------
(* The relay's claims, under SpecRelay *)

SearchEndpoint == TMDB_BASE_URL \o "/search/movie"
DiscoverEndpoint == TMDB_BASE_URL \o "/discover/movie"

MoviesRuns == {i \in DOMAIN relay : relay[i].route = "movies"}

NonEmptyString(x) == x.t = "string" /\ x.v # ""

\* C1: every GET /api/movies with a non-empty title calls /search/movie with
\* query equal to the title, and its upstream parameters never hold
\* with_genres, whatever genreId and page are.
TitleSearchNeverForwardsGenre ==
    \A i \in MoviesRuns :
        NonEmptyString(relay[i].query.title) =>
            /\ relay[i].call.endpoint = SearchEndpoint
            /\ "query" \in DOMAIN relay[i].call.params
            /\ relay[i].call.params.query = relay[i].query.title
            /\ "with_genres" \notin DOMAIN relay[i].call.params

\* C2: every GET /api/movies with title absent or empty calls /discover/movie,
\* its upstream parameters hold no query, and they hold with_genres, equal to
\* genreId, exactly when genreId is present and non-empty.
DiscoverWhenNoTitle ==
    \A i \in MoviesRuns :
        ~NonEmptyString(relay[i].query.title) =>
            /\ relay[i].call.endpoint = DiscoverEndpoint
            /\ "query" \notin DOMAIN relay[i].call.params
            /\ "with_genres" \in DOMAIN relay[i].call.params
                   <=> NonEmptyString(relay[i].query.genreId)
            /\ "with_genres" \in DOMAIN relay[i].call.params
                   => relay[i].call.params.with_genres = relay[i].query.genreId

\* C2 happens: a request for page 2 of genre 28 with an empty title has
\* reached the discover endpoint
DiscoverWithGenreCalled ==
    \E i \in MoviesRuns :
        /\ relay[i].query = [title |-> Str(""), genreId |-> Str("28"), page |-> Str("2")]
        /\ relay[i].call.endpoint = DiscoverEndpoint
        /\ relay[i].call.params.page = Str("2")

GenericError(route) ==
    [status |-> 500, empty |-> FALSE,
     body |-> Obj([error |-> Str(IF route = "movies" THEN "Failed to fetch movies"
                                                   ELSE "Failed to fetch genres")])]

\* C3: on either endpoint, a handler whose upstream call failed (no answer,
\* or a non-success status) has sent exactly one answer, status 500 with the
\* fixed {error} body and nothing of the upstream error, and no exception has
\* left it.
UpstreamFailureGives500 ==
    \A i \in DOMAIN relay :
        (relay[i].pc = "done" /\ ~relay[i].settled.ok) =>
            /\ relay[i].sent = <<GenericError(relay[i].route)>>
            /\ ~relay[i].fault

\* C3 happens: the upstream API answered a movies call with a non-success
\* status and an error body, and the handler has finished
UpstreamErrorAnswered ==
    \E i \in MoviesRuns :
        /\ relay[i].pc = "done"
        /\ relay[i].settled = Rejected(UpstreamErrorDetail)
        /\ Len(relay[i].sent) = 1

WellFormed(data) ==
    data.t = "object" /\ {"results", "total_pages"} \subseteq DOMAIN data.v

\* C4: a movies handler whose upstream call succeeded with a malformed payload
\* (results or total_pages missing, or not an object) answers 500 with the
\* generic body; an answer of status 200 always carries results and
\* total_pages of the upstream payload and nothing else.
MalformedPayloadGives500 ==
    \A i \in MoviesRuns :
        relay[i].pc = "done" =>
            /\ (relay[i].settled.ok /\ ~WellFormed(relay[i].settled.data))
                   => relay[i].sent = <<GenericError("movies")>>
            /\ \A j \in DOMAIN relay[i].sent :
                   relay[i].sent[j].status = 200 =>
                       /\ relay[i].settled.ok
                       /\ WellFormed(relay[i].settled.data)
                       /\ relay[i].sent[j].body =
                              Obj([results |-> relay[i].settled.data.v.results,
                                   total_pages |-> relay[i].settled.data.v.total_pages])

-----------------------------------------------------------------------------
(* The UI's claims *)

\* call k of handleSubmit finishes in this step
Finishes(k) == submits[k].pc # "done" /\ submits'[k].pc = "done"

IsEnvelope(body) ==
    body.t = "object" /\ {"results", "total_pages"} \subseteq DOMAIN body.v

\* the submission of call k failed: the fetch rejected, the relay answered
\* with a failure status, or what it sent is no {results, total_pages}
SubmissionFailed(k) ==
    \/ submits[k].pc = "fetch"
    \/ submits[k].res.status # 200
    \/ submits[k].res.empty
    \/ ~IsEnvelope(submits[k].res.body)

\* C5: a submission that failed, whatever the cause, ends in the error state:
\* response holds 'Failed to fetch data' and the error banner shows it; the
\* success state is entered only with a {results, total_pages} envelope of
\* the relay, whose results and page count it stores.
SubmitFailureShowsError ==
    [][\A k \in DOMAIN submits :
          Finishes(k) =>
            /\ SubmissionFailed(k) =>
                  /\ response' = ErrorResponse
                  /\ Banner(response') = [kind |-> "error", text |-> "Failed to fetch data"]
            /\ response' # ErrorResponse =>
                  /\ ~SubmissionFailed(k)
                  /\ response' = Obj([data |-> submits[k].res.body.v.results])
                  /\ totalPages' = submits[k].res.body.v.total_pages]_vars

IsGenre(g) ==
    /\ g.t = "object"
    /\ DOMAIN g.v = {"id", "name"}
    /\ g.v.id.t = "number"
    /\ g.v.name.t = "string"

\* C6: the UI asks for the genre list once per mount, and genres is a list of
\* {id, name} records in every reachable state, whether the request failed
\* or not.
GenresStayAList ==
    /\ genreFetch.requests <= 1
    /\ genres.t = "array"
    /\ \A i \in DOMAIN genres.v : IsGenre(genres.v[i])

-----------------------------------------------------------------------------
(* The genre string's claim, under SpecRender *)

\* the names, in genre_ids order, of the ids that have a match in the cached
\* list (the first match names the id); with nonEmptyOnly, only the names
\* that are not empty
RECURSIVE ResolvedNames(_, _, _)
ResolvedNames(ids, gs, nonEmptyOnly) ==
    IF ids = <<>> THEN <<>>
    ELSE LET hits == {j \in DOMAIN gs : gs[j].v.id = Head(ids)}
             first == CHOOSE j \in hits : \A h \in hits : j <= h
         IN (IF hits # {} /\ (nonEmptyOnly => gs[first].v.name.v # "")
             THEN <<gs[first].v.name.v>> ELSE <<>>)
            \o ResolvedNames(Tail(ids), gs, nonEmptyOnly)

RECURSIVE CommaSeparated(_)
CommaSeparated(names) ==
    IF Len(names) = 0 THEN ""
    ELSE IF Len(names) = 1 THEN names[1]
    ELSE names[1] \o ", " \o CommaSeparated(Tail(names))

\* the genre string of a movie: the resolved names joined, "N/A" without any
GenreStringOf(movie, gs, nonEmptyOnly) ==
    IF "genre_ids" \notin DOMAIN movie.v THEN "N/A"
    ELSE LET names == ResolvedNames(movie.v.genre_ids.v, gs, nonEmptyOnly)
         IN IF names = <<>> THEN "N/A" ELSE CommaSeparated(names)

\* C7 as stated: the genre string of every card is the names of the genre_ids
\* that have a matching id in the cached list, in genre_ids order, joined by
\* ", ", and "N/A" when no id matches or genre_ids is empty or absent.
GenreStringIsMatchedNames ==
    \A i \in DOMAIN cards :
        cards[i] = GenreStringOf(response.v.data.v[i], genres.v, FALSE)

\* C7 as amended: the names joined are those of the genre_ids whose first
\* match in the cached list has a non-empty name; "N/A" when there is none.
GenreStringIsNonEmptyMatchedNames ==
    \A i \in DOMAIN cards :
        cards[i] = GenreStringOf(response.v.data.v[i], genres.v, TRUE)

\* C7 happens: a card of genre_ids [28, 999, 12] is rendered against the
\* list [Action, Adventure]: the unmatched id is dropped
UnmatchedIdDropped ==
    /\ genres = Arr(<<Obj([id |-> Num(28), name |-> Str("Action")]),
                      Obj([id |-> Num(12), name |-> Str("Adventure")])>>)
    /\ Get(response.v.data.v[1], "genre_ids") = Arr(<<Num(28), Num(999), Num(12)>>)
    /\ cards = <<"Action, Adventure">>

-----------------------------------------------------------------------------
(* Overlapping submissions *)

InFlight == {k \in DOMAIN submits : submits[k].pc \in {"fetch", "json"}}

\* C8: handleSubmit discards no stale answer: a call that finishes after a
\* later call has finished still overwrites response and totalPages with its
\* own answer.
StaleAnswerApplied ==
    [][\A k \in DOMAIN submits :
          (/\ submits[k].pc = "json"
           /\ Finishes(k)
           /\ \E j \in DOMAIN submits : j > k /\ submits[j].pc = "done")
          => \/ response' = ErrorResponse
             \/ /\ response' = Obj([data |-> Get(submits[k].res.body, "results")])
                /\ totalPages' = Get(submits[k].res.body, "total_pages")]_vars

\* C8 happens: two submissions with different queries have both finished and
\* the results shown are those of the earlier one
StaleResultsShown ==
    /\ Len(submits) >= 2
    /\ submits[1].pc = "done" /\ submits[2].pc = "done"
    /\ response = Obj([data |-> UpstreamResults(moviesCall(submits[1].query))])
    /\ response # Obj([data |-> UpstreamResults(moviesCall(submits[2].query))])

\* C9: with the submit button the only way to submit, at most one search
\* request is in flight and loading is true exactly while one is.
OneRequestInFlight ==
    /\ Cardinality(InFlight) <= 1
    /\ loading <=> InFlight # {}

\* C9 happens: a second search is in flight after the first has finished
SecondSearchInFlight ==
    /\ Len(submits) = 2
    /\ submits[1].pc = "done"
    /\ submits[2].pc = "json"
    /\ loading

HoldsResults(resp) ==
    /\ resp.t = "object"
    /\ "error" \notin DOMAIN resp.v
    /\ resp.v.data.t = "array"

\* C10: every submission sets loading, and the call that settles leaves
\* loading false and response non-null, holding either results or the error
\* message.
SubmissionLeavesLoading ==
    [][/\ Len(submits') > Len(submits) => loading'
       /\ \A k \in DOMAIN submits :
             Finishes(k) =>
                /\ ~loading'
                /\ response' # Null
                /\ response' = ErrorResponse \/ HoldsResults(response')]_vars

\* the fetches settle: the browser resolves or rejects every fetch and every
\* body read
Fairness ==
    /\ \A k \in 1..MaxSubmits :
          /\ WF_vars(k \in DOMAIN submits
                       /\ \/ FetchReject(k)
                          \/ \E r \in MoviesOutcomes(moviesCall(submits[k].query)) :
                                FetchResolve(k, r))
          /\ WF_vars(k \in DOMAIN submits
                       /\ \E broken \in BOOLEAN : JsonSettle(k, broken))

FairSpec == Spec /\ Fairness

\* with the fetches settling, loading does not last
LoadingEnds == loading ~> ~loading

-----------------------------------------------------------------------------
(* Pagination *)

\* C11: currentPage is 1 in every reachable state of the UI, and so every
\* search request the UI has sent carries page=1, whatever total_pages the
\* answers before it reported.
CurrentPageStaysOne ==
    /\ currentPage = 1
    /\ \A k \in DOMAIN submits : submits[k].query.page = Str("1")

\* C11 happens: an answer has reported 3 pages and the search submitted
\* after it asks for page 1 again
FirstPageAskedAgain ==
    /\ Len(submits) = 2
    /\ submits[1].pc = "done"
    /\ totalPages = Num(3)
    /\ submits[2].pc = "fetch"
    /\ submits[2].query.page = Str("1")

====
